---- MODULE Spec2Model ----
(***************************************************************************)
(* Model of proxypin_mcp_server.py: the tool functions that shape their    *)
(* arguments, and call_proxypin_tool, which numbers a JSON-RPC request,    *)
(* posts it and unwraps the response.                                      *)
(***************************************************************************)
EXTENDS Integers, Sequences, FiniteSets, TLC

VARIABLES request_id_counter, pc, call, payload, loaded, response, outcome,
          posts, inv, ncalls, delivered

vars == <<request_id_counter, pc, call, payload, loaded, response, outcome,
          posts, inv, ncalls, delivered>>

\* ------------------------------------------------------------------ bounds
\* Invocations started in one run.
MaxCalls == 3
\* Flows of the hosting runtime that may run a tool at the same time.
NumThreads == 2
\* Optional parameters a caller supplies in one call.
MaxKw == 2
\* Length (in tokens) of a content element's text.
MaxTextLen == 4

Threads == 1..NumThreads

\* ----------------------------------------------------------- Python values
\* A Python value a caller can pass: None, a str, an int or a bool.
None == [kind |-> "none", s |-> "", i |-> 0]
PyStr(x) == [kind |-> "str", s |-> x, i |-> 0]
PyInt(n) == [kind |-> "int", s |-> "", i |-> n]
PyBool(b) == [kind |-> "bool", s |-> "", i |-> IF b THEN 1 ELSE 0]

\* Python's truth test, as `if query:` applies it.
Truthy(v) ==
  CASE v.kind = "none" -> FALSE
    [] v.kind = "str" -> v.s # ""
    [] OTHER -> v.i # 0

IsNotNone(v) == v.kind # "none"

\* A dict with string keys; {} is EmptyDict.
EmptyDict == [k \in {} |-> None]
Entry(k, v) == k :> v
\* args[k] = v executed only when the condition holds.
SetIf(cond, k, v) == IF cond THEN Entry(k, v) ELSE EmptyDict

\* The two parameters of call_proxypin_tool as a tool passes them; none tells
\* that the arguments parameter is left out (None).
CallOf(name, d) == [name |-> name, none |-> FALSE, arguments |-> d]
CallNoArgs(name) == [name |-> name, none |-> TRUE, arguments |-> EmptyDict]

\* ------------------------------------------------------------------- tools
ToolNames ==
  {"search_requests", "get_request_details", "replay_request", "generate_code",
   "get_curl", "block_url", "add_response_rewrite", "add_request_rewrite",
   "update_script", "get_scripts", "set_config", "add_host_mapping",
   "get_proxy_status", "export_har", "import_har", "start_proxy", "stop_proxy",
   "get_recent_requests", "clear_requests", "get_statistics",
   "compare_requests", "find_similar_requests", "extract_api_endpoints"}

\* The declared parameters of each tool function: their types, and the defaults
\* of those that have one (a parameter without a default is required).
Signature(tool) ==
  CASE tool = "search_requests" ->
         [types |-> [query |-> "str", method |-> "str", status_code |-> "str",
                     domain |-> "str", header_search |-> "str",
                     request_body_search |-> "str",
                     response_body_search |-> "str", min_duration |-> "int",
                     max_duration |-> "int", limit |-> "int"],
          defaults |-> [query |-> None, method |-> None, status_code |-> None,
                        domain |-> None, header_search |-> None,
                        request_body_search |-> None,
                        response_body_search |-> None, min_duration |-> None,
                        max_duration |-> None, limit |-> PyInt(20)]]
    [] tool \in {"get_request_details", "replay_request", "get_curl"} ->
         [types |-> [request_id |-> "str"], defaults |-> EmptyDict]
    [] tool = "generate_code" ->
         [types |-> [request_id |-> "str", language |-> "str"],
          defaults |-> [language |-> PyStr("python")]]
    [] tool = "block_url" ->
         [types |-> [url_pattern |-> "str", block_type |-> "str"],
          defaults |-> [block_type |-> PyStr("blockRequest")]]
    [] tool = "add_response_rewrite" ->
         [types |-> [url_pattern |-> "str", rewrite_type |-> "str",
                     value |-> "str", key |-> "str"],
          defaults |-> [key |-> None]]
    [] tool = "add_request_rewrite" ->
         [types |-> [url_pattern |-> "str", rewrite_type |-> "str",
                     key |-> "str", value |-> "str"],
          defaults |-> EmptyDict]
    [] tool = "update_script" ->
         [types |-> [name |-> "str", url_pattern |-> "str",
                     script_content |-> "str"],
          defaults |-> EmptyDict]
    [] tool = "set_config" ->
         [types |-> [system_proxy |-> "bool", ssl_capture |-> "bool"],
          defaults |-> [system_proxy |-> None, ssl_capture |-> None]]
    [] tool = "add_host_mapping" ->
         [types |-> [domain |-> "str", ip |-> "str"], defaults |-> EmptyDict]
    [] tool = "export_har" ->
         [types |-> [limit |-> "int"], defaults |-> [limit |-> PyInt(100)]]
    [] tool = "import_har" ->
         [types |-> [har_content |-> "str"], defaults |-> EmptyDict]
    [] tool = "start_proxy" ->
         [types |-> [port |-> "int"], defaults |-> [port |-> PyInt(9099)]]
    [] tool = "get_recent_requests" ->
         [types |-> [limit |-> "int", url_filter |-> "str", method |-> "str"],
          defaults |-> [limit |-> PyInt(20), url_filter |-> None,
                        method |-> None]]
    [] tool = "compare_requests" ->
         [types |-> [request_id_1 |-> "str", request_id_2 |-> "str"],
          defaults |-> EmptyDict]
    [] tool = "find_similar_requests" ->
         [types |-> [request_id |-> "str", limit |-> "int"],
          defaults |-> [limit |-> PyInt(10)]]
    [] tool = "extract_api_endpoints" ->
         [types |-> [domain_filter |-> "str"],
          defaults |-> [domain_filter |-> None]]
    [] OTHER -> [types |-> EmptyDict, defaults |-> EmptyDict]

ParamNames(tool) == DOMAIN Signature(tool).types
OptionalNames(tool) == DOMAIN Signature(tool).defaults
RequiredNames(tool) == ParamNames(tool) \ OptionalNames(tool)

\* Python's binding of a call's keyword arguments kw to the parameters: a
\* parameter the caller leaves out takes its declared default.
Bind(tool, kw) ==
  [n \in ParamNames(tool) |->
     IF n \in DOMAIN kw THEN kw[n] ELSE Signature(tool).defaults[n]]

\* The tool functions: p holds the bound parameters, the value is the call of
\* call_proxypin_tool the body makes.
search_requests(p) ==
  CallOf("search_requests",
         Entry("limit", p.limit)
         @@ SetIf(Truthy(p.query), "query", p.query)
         @@ SetIf(Truthy(p.method), "method", p.method)
         @@ SetIf(Truthy(p.status_code), "status_code", p.status_code)
         @@ SetIf(Truthy(p.domain), "domain", p.domain)
         @@ SetIf(Truthy(p.header_search), "header_search", p.header_search)
         @@ SetIf(Truthy(p.request_body_search), "request_body_search",
                  p.request_body_search)
         @@ SetIf(Truthy(p.response_body_search), "response_body_search",
                  p.response_body_search)
         @@ SetIf(IsNotNone(p.min_duration), "min_duration", p.min_duration)
         @@ SetIf(IsNotNone(p.max_duration), "max_duration", p.max_duration))

get_request_details(p) ==
  CallOf("get_request_details", Entry("request_id", p.request_id))

replay_request(p) == CallOf("replay_request", Entry("request_id", p.request_id))

generate_code_no_language(p) ==
  CallOf("generate_code", Entry("request_id", p.request_id))

generate_code(p) ==
  CallOf("generate_code",
         Entry("request_id", p.request_id) @@ Entry("language", p.language))

get_curl(p) == CallOf("get_curl", Entry("request_id", p.request_id))

block_url(p) ==
  CallOf("block_url",
         Entry("url_pattern", p.url_pattern)
         @@ Entry("block_type", p.block_type))

add_response_rewrite(p) ==
  CallOf("add_response_rewrite",
         Entry("url_pattern", p.url_pattern)
         @@ Entry("rewrite_type", p.rewrite_type)
         @@ Entry("value", p.value)
         @@ SetIf(Truthy(p.key), "key", p.key))

add_request_rewrite(p) ==
  CallOf("add_request_rewrite",
         Entry("url_pattern", p.url_pattern)
         @@ Entry("rewrite_type", p.rewrite_type)
         @@ Entry("key", p.key)
         @@ Entry("value", p.value))

update_script(p) ==
  CallOf("update_script",
         Entry("name", p.name)
         @@ Entry("url_pattern", p.url_pattern)
         @@ Entry("script_content", p.script_content))

get_scripts(p) == CallNoArgs("get_scripts")

set_config(p) ==
  CallOf("set_config",
         SetIf(IsNotNone(p.system_proxy), "system_proxy", p.system_proxy)
         @@ SetIf(IsNotNone(p.ssl_capture), "ssl_capture", p.ssl_capture))

add_host_mapping(p) ==
  CallOf("add_host_mapping", Entry("domain", p.domain) @@ Entry("ip", p.ip))

get_proxy_status(p) == CallNoArgs("get_proxy_status")

export_har(p) == CallOf("export_har", Entry("limit", p.limit))

import_har(p) == CallOf("import_har", Entry("har_content", p.har_content))

start_proxy(p) == CallOf("start_proxy", Entry("port", p.port))

stop_proxy(p) == CallNoArgs("stop_proxy")

get_recent_requests(p) ==
  CallOf("get_recent_requests",
         Entry("limit", p.limit)
         @@ SetIf(Truthy(p.url_filter), "url_filter", p.url_filter)
         @@ SetIf(Truthy(p.method), "method", p.method))

clear_requests(p) == CallNoArgs("clear_requests")

get_statistics(p) == CallNoArgs("get_statistics")

compare_requests(p) ==
  CallOf("compare_requests",
         Entry("request_id_1", p.request_id_1)
         @@ Entry("request_id_2", p.request_id_2))

find_similar_requests(p) ==
  CallOf("find_similar_requests",
         Entry("request_id", p.request_id) @@ Entry("limit", p.limit))

extract_api_endpoints(p) ==
  CallOf("extract_api_endpoints",
         SetIf(Truthy(p.domain_filter), "domain_filter", p.domain_filter))

\* The registered tool functions by name (the @mcp.tool() decorators).
ToolBody(tool, p) ==
  CASE tool = "search_requests" -> search_requests(p)
    [] tool = "get_request_details" -> get_request_details(p)
    [] tool = "replay_request" -> replay_request(p)
    [] tool = "generate_code" -> generate_code(p)
    [] tool = "get_curl" -> get_curl(p)
    [] tool = "block_url" -> block_url(p)
    [] tool = "add_response_rewrite" -> add_response_rewrite(p)
    [] tool = "add_request_rewrite" -> add_request_rewrite(p)
    [] tool = "update_script" -> update_script(p)
    [] tool = "get_scripts" -> get_scripts(p)
    [] tool = "set_config" -> set_config(p)
    [] tool = "add_host_mapping" -> add_host_mapping(p)
    [] tool = "get_proxy_status" -> get_proxy_status(p)
    [] tool = "export_har" -> export_har(p)
    [] tool = "import_har" -> import_har(p)
    [] tool = "start_proxy" -> start_proxy(p)
    [] tool = "stop_proxy" -> stop_proxy(p)
    [] tool = "get_recent_requests" -> get_recent_requests(p)
    [] tool = "clear_requests" -> clear_requests(p)
    [] tool = "get_statistics" -> get_statistics(p)
    [] tool = "compare_requests" -> compare_requests(p)
    [] tool = "find_similar_requests" -> find_similar_requests(p)
    [] tool = "extract_api_endpoints" -> extract_api_endpoints(p)

\* -------------------------------------------------------------------- JSON
\* A text is a sequence of tokens: "k" stands for a member key with its colon,
\* "1" for a digit, " " for whitespace.
TextTokens == {"{", "}", "k", "1", " "}
Texts(n) == UNION {[1..m -> TextTokens] : m \in 0..n}

\* The text "{}" (the default of content[0].get("text", "{}")) and the value {}.
EmptyObjectText == <<"{", "}">>
EmptyObject == <<"{", "}">>

\* The first position from i on that holds no whitespace.
RECURSIVE SkipWs(_, _)
SkipWs(s, i) ==
  IF i <= Len(s) /\ s[i] = " " THEN SkipWs(s, i + 1) ELSE i

\* The end of the run of digits that starts at i.
RECURSIVE DigitsEnd(_, _)
DigitsEnd(s, i) ==
  IF i <= Len(s) /\ s[i] = "1" THEN DigitsEnd(s, i + 1) ELSE i

ParseFail == [ok |-> FALSE, value |-> <<>>, next |-> 0]

\* The JSON value that starts at position i of s (a number, {} or an object
\* of one member) and the position after it. A value is written as its text
\* without whitespace.
RECURSIVE ParseValue(_, _)
ParseValue(s, i) ==
  IF i > Len(s) THEN ParseFail
  ELSE IF s[i] = "1" THEN
    [ok |-> TRUE, value |-> SubSeq(s, i, DigitsEnd(s, i) - 1),
     next |-> DigitsEnd(s, i)]
  ELSE IF s[i] = "{" THEN
    LET j == SkipWs(s, i + 1) IN
    IF j > Len(s) THEN ParseFail
    ELSE IF s[j] = "}" THEN [ok |-> TRUE, value |-> EmptyObject, next |-> j + 1]
    ELSE IF s[j] = "k" THEN
      LET v == ParseValue(s, SkipWs(s, j + 1))
          m == SkipWs(s, v.next)
      IN IF v.ok /\ m <= Len(s) /\ s[m] = "}"
         THEN [ok |-> TRUE, value |-> <<"{", "k">> \o v.value \o <<"}">>,
               next |-> m + 1]
         ELSE ParseFail
    ELSE ParseFail
  ELSE ParseFail

\* json.loads: the value of a text that is one JSON value between optional
\* whitespace; any other text raises JSONDecodeError (ok = FALSE).
JsonLoads(text) ==
  LET v == ParseValue(text, SkipWs(text, 1)) IN
  IF v.ok /\ SkipWs(text, v.next) > Len(text)
  THEN [ok |-> TRUE, value |-> v.value]
  ELSE [ok |-> FALSE, value |-> <<>>]

\* --------------------------------------------------------------- responses
\* What session.post meets: a network failure, or an HTTP response with a
\* status and a body. A body is either not JSON or a JSON object with optional
\* error and result members; id_ok tells whether the echoed id is the sent one.
NetFailures == {"refused", "dns", "timeout"}
Statuses == {200, 201, 304, 404, 500}
ErrorPayload == "code=-32601 message=method not found"

NoText == [has_text |-> FALSE, text |-> <<>>]
Elements(texts) == {[has_text |-> TRUE, text |-> x] : x \in texts} \cup {NoText}

\* What may follow the first element of a content sequence.
Rests ==
  {<<>>, <<[has_text |-> TRUE, text |-> <<" ", "1">>]>>,
   <<[has_text |-> TRUE, text |-> <<"}">>]>>}

Contents(texts, rests) ==
  {<<>>} \cup {<<e>> \o r : e \in Elements(texts), r \in rests}

NetFailure(n) ==
  [net |-> n, status |-> 0, json |-> FALSE, has_error |-> FALSE, error |-> "",
   has_result |-> FALSE, has_content |-> FALSE, content |-> <<>>,
   id_ok |-> FALSE]

HttpNotJson(st) ==
  [net |-> "ok", status |-> st, json |-> FALSE, has_error |-> FALSE,
   error |-> "", has_result |-> FALSE, has_content |-> FALSE,
   content |-> <<>>, id_ok |-> FALSE]

HttpJson(st, has_error, has_result, has_content, content, id_ok) ==
  [net |-> "ok", status |-> st, json |-> TRUE, has_error |-> has_error,
   error |-> IF has_error THEN ErrorPayload ELSE "",
   has_result |-> has_result, has_content |-> has_content,
   content |-> content, id_ok |-> id_ok]

\* ------------------------------------------------------ call_proxypin_tool
\* How a call ends: a returned value, or a raised exception with its class,
\* whether the class derives from requests' RequestException, the fixed part
\* of its message and the part that varies.
Return(v) ==
  [kind |-> "return", cls |-> "", reqexc |-> FALSE, msg |-> "", detail |-> "",
   value |-> v]
Raise(cls, reqexc, msg, detail) ==
  [kind |-> "raise", cls |-> cls, reqexc |-> reqexc, msg |-> msg,
   detail |-> detail, value |-> <<>>]
NoOutcome ==
  [kind |-> "none", cls |-> "", reqexc |-> FALSE, msg |-> "", detail |-> "",
   value |-> <<>>]

\* The message prefixes of the two raise statements ("ProxyPin连接失败: " is
\* written in ASCII here).
McpErrorMsg == "MCP Error: "
ConnectFailedMsg == "ProxyPin connect failed: "

\* response.raise_for_status(): HTTPError for a 4xx or 5xx status.
RaiseForStatus(st) == 400 <= st /\ st < 600

LastElement(content) == content[Len(content)]

\* content[0]
FirstElement(content) == content[1]

\* result.get("result", {}).get("content", []) and what follows it.
Unwrap(resp) ==
  LET content == IF resp.has_result /\ resp.has_content
                 THEN resp.content ELSE <<>>
  IN IF content # <<>> THEN
       LET e == FirstElement(content)
           text == IF e.has_text THEN e.text ELSE EmptyObjectText
           v == JsonLoads(text)
       IN IF v.ok THEN Return(v.value)
          ELSE Raise("JSONDecodeError", FALSE, "", "")
     ELSE Return(EmptyObject)

\* The body of the try statement. json_is_reqexc: whether the installed
\* requests raises its own JSONDecodeError (a RequestException) from
\* response.json(), as releases from 2.27 on do, or the json module's.
TryBody(resp, json_is_reqexc) ==
  IF resp.net = "refused" \/ resp.net = "dns"
    THEN Raise("ConnectionError", TRUE, "", resp.net)
  ELSE IF resp.net = "timeout" THEN Raise("Timeout", TRUE, "", resp.net)
  ELSE IF RaiseForStatus(resp.status) THEN Raise("HTTPError", TRUE, "", "")
  ELSE IF ~resp.json THEN Raise("JSONDecodeError", json_is_reqexc, "", "")
  ELSE IF resp.has_error THEN Raise("Exception", FALSE, McpErrorMsg, resp.error)
  ELSE Unwrap(resp)

ExceptAny(r) ==
  IF r.kind = "raise"
  THEN Raise("Exception", FALSE, ConnectFailedMsg, r.cls)
  ELSE r

\* except requests.exceptions.RequestException as e: raise Exception(...)
ExceptClause(r) ==
  IF r.kind = "raise" /\ r.reqexc
  THEN Raise("Exception", FALSE, ConnectFailedMsg, r.cls)
  ELSE r

CallResult(resp, json_is_reqexc) == ExceptClause(TryBody(resp, json_is_reqexc))

\* The payload dict; arguments None becomes {}.
BuildPayload(c, id) ==
  [id |-> id, method |-> "tools/call", name |-> c.name,
   arguments |-> IF c.none THEN EmptyDict ELSE c.arguments]

NoIncrement(c) == c

\* request_id_counter += 1, applied to the value read.
Increment(c) == c + 1

SendTwice(log, req) == Append(Append(log, req), req)

\* session.post(MESSAGES_URL, json=payload, timeout=30): one request on the wire.
Send(log, req) == Append(log, req)

\* ------------------------------------------------------------------ inputs
\* The values a caller passes for a parameter of a type.
Concrete(type) ==
  CASE type = "str" -> {PyStr(""), PyStr("x")}
    [] type = "int" -> {PyInt(0), PyInt(5)}
    [] type = "bool" -> {PyBool(FALSE), PyBool(TRUE)}

AnyValue == {None} \cup Concrete("str") \cup Concrete("int") \cup Concrete("bool")

\* The keyword arguments of a call of a tool: every required parameter, and
\* at most MaxKw of the optional ones, each a value of its type or None.
Kwargs(tool) ==
  UNION {
    {kw \in [RequiredNames(tool) \cup O -> AnyValue] :
       \A n \in DOMAIN kw :
         \/ kw[n] \in Concrete(Signature(tool).types[n])
         \/ n \in O /\ kw[n] = None} :
    O \in {X \in SUBSET OptionalNames(tool) : Cardinality(X) <= MaxKw}}

\* The inputs the runs of a specification draw from: the tool calls, the
\* names of direct calls, and the network failures, statuses, first texts and
\* content tails of the responses.
SeqEnv ==
  [calls |-> {[tool |-> "get_scripts", kw |-> EmptyDict],
              [tool |-> "generate_code", kw |-> Entry("request_id", PyStr("x"))],
              [tool |-> "set_config", kw |-> Entry("ssl_capture", PyBool(FALSE))]},
   directs |-> {"get_scripts", "no_such_tool"},
   nets |-> NetFailures,
   statuses |-> {200, 500},
   texts |-> {EmptyObjectText, <<"}">>},
   rests |-> {<<>>}]

ConcEnv ==
  [calls |-> {[tool |-> "set_config", kw |-> Entry("ssl_capture", PyBool(FALSE))]},
   directs |-> {"get_scripts"},
   nets |-> {"refused"},
   statuses |-> {200},
   texts |-> {EmptyObjectText},
   rests |-> {<<>>}]

RespEnv ==
  [calls |-> {[tool |-> "get_scripts", kw |-> EmptyDict]},
   nets |-> NetFailures,
   statuses |-> Statuses,
   texts |-> Texts(MaxTextLen),
   rests |-> Rests]

NoCall == [tool |-> "", direct |-> FALSE, kw |-> EmptyDict]
NoPayload ==
  [id |-> 0, method |-> "", name |-> "", arguments |-> EmptyDict]
NoResponse == NetFailure("none")

\* ----------------------------------------------------------- state machine
Init ==
  /\ request_id_counter = 1
  /\ pc = [t \in Threads |-> "idle"]
  /\ call = [t \in Threads |-> NoCall]
  /\ payload = [t \in Threads |-> NoPayload]
  /\ loaded = [t \in Threads |-> 0]
  /\ response = [t \in Threads |-> NoResponse]
  /\ outcome = [t \in Threads |-> NoOutcome]
  /\ posts = <<>>
  /\ inv = [t \in Threads |-> 0]
  /\ ncalls = 0
  /\ delivered = [k \in {} |-> <<>>]

\* Entry of call_proxypin_tool in flow t with the parameters c: the payload is
\* built with the counter's current value.
Enter(t, c) ==
  /\ pc[t] = "idle"
  /\ ncalls < MaxCalls
  /\ payload' = [payload EXCEPT ![t] = BuildPayload(c, request_id_counter)]
  /\ pc' = [pc EXCEPT ![t] = "load"]
  /\ ncalls' = ncalls + 1
  /\ inv' = [inv EXCEPT ![t] = ncalls + 1]
  /\ delivered' = delivered @@ ((ncalls + 1) :> <<>>)
  /\ response' = [response EXCEPT ![t] = NoResponse]
  /\ outcome' = [outcome EXCEPT ![t] = NoOutcome]
  /\ UNCHANGED <<request_id_counter, loaded, posts>>

\* The hosting runtime calls a registered tool function with keyword arguments.
ToolCall(t, tool, kw) ==
  /\ call' = [call EXCEPT ![t] = [tool |-> tool, direct |-> FALSE, kw |-> kw]]
  /\ Enter(t, ToolBody(tool, Bind(tool, kw)))

\* call_proxypin_tool called by name, without a tool function.
DirectCall(t, name) ==
  /\ call' = [call EXCEPT ![t] = [tool |-> name, direct |-> TRUE,
                                  kw |-> EmptyDict]]
  /\ Enter(t, CallNoArgs(name))

\* request_id_counter += 1: the read ...
LoadCounter(t) ==
  /\ pc[t] = "load"
  /\ loaded' = [loaded EXCEPT ![t] = request_id_counter]
  /\ pc' = [pc EXCEPT ![t] = "store"]
  /\ UNCHANGED <<request_id_counter, call, payload, response, outcome, posts,
                 inv, ncalls, delivered>>

\* ... and the write.
StoreCounter(t) ==
  /\ pc[t] = "store"
  /\ request_id_counter' = Increment(loaded[t])
  /\ pc' = [pc EXCEPT ![t] = "post"]
  /\ UNCHANGED <<call, payload, loaded, response, outcome, posts, inv, ncalls,
                 delivered>>

\* session.post sends the request.
Post(t) ==
  /\ pc[t] = "post"
  /\ posts' = Send(posts, [inv |-> inv[t], id |-> payload[t].id,
                           name |-> payload[t].name])
  /\ pc' = [pc EXCEPT ![t] = "wait"]
  /\ UNCHANGED <<request_id_counter, call, payload, loaded, response, outcome,
                 inv, ncalls, delivered>>

\* The round trip ends with resp; the rest of call_proxypin_tool runs and the
\* call ends with a value or an exception.
Receive(t, resp, json_is_reqexc) ==
  /\ pc[t] = "wait"
  /\ response' = [response EXCEPT ![t] = resp]
  /\ outcome' = [outcome EXCEPT ![t] = CallResult(resp, json_is_reqexc)]
  /\ delivered' = [delivered EXCEPT ![inv[t]] =
                     Append(@, CallResult(resp, json_is_reqexc).kind)]
  /\ pc' = [pc EXCEPT ![t] = "idle"]
  /\ UNCHANGED <<request_id_counter, call, payload, loaded, posts, inv, ncalls>>

\* The outcomes of the round trip the environment can produce.
Respond(t, env) ==
  /\ pc[t] = "wait"
  /\ \/ \E n \in env.nets : Receive(t, NetFailure(n), TRUE)
     \/ \E st \in env.statuses, j \in BOOLEAN : Receive(t, HttpNotJson(st), j)
     \/ \E st \in env.statuses, he \in BOOLEAN, hr \in BOOLEAN, ok \in BOOLEAN :
          Receive(t, HttpJson(st, he, hr, FALSE, <<>>, ok), TRUE)
     \/ \E st \in env.statuses, he \in BOOLEAN, ok \in BOOLEAN :
          \E c \in Contents(env.texts, env.rests) :
            Receive(t, HttpJson(st, he, TRUE, TRUE, c, ok), TRUE)

Step(t, env) ==
  \/ \E c \in env.calls : ToolCall(t, c.tool, c.kw)
  \/ \E n \in env.directs : DirectCall(t, n)
  \/ LoadCounter(t)
  \/ StoreCounter(t)
  \/ Post(t)
  \/ Respond(t, env)

\* Sequential invocations: a single flow.
Next == Step(1, SeqEnv)
Spec == Init /\ [][Next]_vars

\* Invocations of concurrent flows, interleaved at the steps above.
NextConc == \E t \in Threads : Step(t, ConcEnv)
SpecConc == Init /\ [][NextConc]_vars

\* One call of any tool with any keyword arguments.
NextArgs ==
  \E tool \in ToolNames : \E kw \in Kwargs(tool) :
    ncalls = 0 /\ ToolCall(1, tool, kw)
SpecArgs == Init /\ [][NextArgs]_vars

\* One call and any response to it.
NextResp ==
  \/ \E c \in RespEnv.calls : ncalls = 0 /\ ToolCall(1, c.tool, c.kw)
  \/ LoadCounter(1)
  \/ StoreCounter(1)
  \/ Post(1)
  \/ Respond(1, RespEnv)
SpecResp == Init /\ [][NextResp]_vars

\* ------------------------------------------------------------------ claims
\* The requests sent for invocation k.
PostsOf(k) == {i \in 1..Len(posts) : posts[i].inv = k}
\* Invocation k is still inside call_proxypin_tool.
Running(k) == \E t \in Threads : inv[t] = k /\ pc[t] # "idle"
\* Flow t has returned from its call.
Ended(t) == pc[t] = "idle" /\ outcome[t].kind # "none"
Is2xx(st) == 200 <= st /\ st < 300
\* What a caller can tell an exception by: its class and the fixed part of
\* its message.
ErrorKind(o) == <<o.cls, o.msg>>

\* C1: in a sequential run the k-th invocation sends the id k, whatever the
\* tool names and however the earlier invocations ended.
C1_IdIsInvocationIndex ==
  /\ \A i \in 1..Len(posts) : posts[i].id = i /\ posts[i].inv = i
  /\ \A t \in Threads : pc[t] # "idle" => payload[t].id = inv[t]

C1_Witness ==
  /\ Len(posts) = 3
  /\ posts[3].id = 3
  /\ posts[1].name # posts[2].name
  /\ delivered[1] = <<"raise">>
  /\ delivered[2] = <<"return">>

\* C2: with concurrent invocations no two requests carry the same id, and the
\* counter is 1 plus the number of invocations that have passed the increment.
C2_UniqueIdsNoLostIncrement ==
  /\ \A i, j \in 1..Len(posts) : i # j => posts[i].id # posts[j].id
  /\ request_id_counter =
       1 + ncalls - Cardinality({t \in Threads : pc[t] \in {"load", "store"}})

\* C3: an optional parameter (one whose default is None) left out or passed as
\* None is not a key of the arguments; passed any other value, it is a key
\* with that value.
C3_OptionalKeyIffConcrete ==
  \A t \in Threads :
    (pc[t] # "idle" /\ ~call[t].direct) =>
      \A n \in OptionalNames(call[t].tool) :
        Signature(call[t].tool).defaults[n] = None =>
          IF n \in DOMAIN call[t].kw /\ call[t].kw[n] # None
          THEN /\ n \in DOMAIN payload[t].arguments
               /\ payload[t].arguments[n] = call[t].kw[n]
          ELSE n \notin DOMAIN payload[t].arguments

DefaultedNames(tool) ==
  {n \in OptionalNames(tool) : Signature(tool).defaults[n] # None}

C5_RemoteErrorRaised ==
  \A t \in Threads :
    (Ended(t) /\ response[t].net = "ok" /\ Is2xx(response[t].status)
     /\ response[t].json /\ response[t].has_error) =>
      /\ outcome[t].kind = "raise"
      /\ outcome[t].msg = McpErrorMsg
      /\ outcome[t].detail = response[t].error
      /\ \A n \in NetFailures :
           ErrorKind(outcome[t]) # ErrorKind(CallResult(NetFailure(n), TRUE))
      /\ ErrorKind(outcome[t]) # ErrorKind(CallResult(HttpNotJson(500), TRUE))

C5_Witness ==
  /\ Ended(1)
  /\ response[1].status = 201
  /\ response[1].has_error
  /\ response[1].has_result
  /\ Len(response[1].content) = 2
  /\ JsonLoads(response[1].content[1].text).ok
  /\ outcome[1].kind = "raise"
  /\ outcome[1].detail = ErrorPayload

\* C6: a non-2xx status makes the call fail with an error whose kind is not
\* the kind a network failure produces.
C6_StatusErrorDistinctFromNetwork ==
  \A t \in Threads :
    (Ended(t) /\ response[t].net = "ok" /\ ~Is2xx(response[t].status)) =>
      /\ outcome[t].kind = "raise"
      /\ \A n \in NetFailures :
           ErrorKind(outcome[t]) # ErrorKind(CallResult(NetFailure(n), TRUE))

\* C7: for a 2xx response with a JSON object body and no error member, the
\* call returns the value decoded from the text of the first content element
\* when there is one and it decodes, and {} when the content is empty or
\* missing; nothing else of the response matters.
C7_ReturnsFirstText ==
  \A t \in Threads :
    (Ended(t) /\ response[t].net = "ok" /\ Is2xx(response[t].status)
     /\ response[t].json /\ ~response[t].has_error) =>
      LET r == response[t]
          present == r.has_result /\ r.has_content /\ r.content # <<>>
      IN /\ (present /\ r.content[1].has_text
             /\ JsonLoads(r.content[1].text).ok) =>
               outcome[t] = Return(JsonLoads(r.content[1].text).value)
         /\ ~present => outcome[t] = Return(EmptyObject)
         /\ (present /\ r.content[1].text = <<"{", " ", "}", " ">>) =>
               outcome[t] = Return(EmptyObject)
         /\ (present /\ r.content[1].text = <<"{", "k", "1", "}">>) =>
               outcome[t] = Return(<<"{", "k", "1", "}">>)

C7_Witness ==
  /\ Ended(1)
  /\ response[1].status = 200
  /\ ~response[1].has_error
  /\ ~response[1].id_ok
  /\ Len(response[1].content) = 2
  /\ response[1].content[1].text = <<" ", "1", "1">>
  /\ response[1].content[2].text = <<"}">>
  /\ outcome[1] = Return(<<"1", "1">>)

\* C8: when the response is 2xx with no error member and the first content
\* element's text is not valid JSON, the call fails with an error raised by
\* the bridge itself; the parser's exception does not reach the caller.
C8_DecodeFailureWrapped ==
  \A t \in Threads :
    (Ended(t) /\ response[t].net = "ok" /\ Is2xx(response[t].status)
     /\ response[t].json /\ ~response[t].has_error
     /\ response[t].has_result /\ response[t].has_content
     /\ response[t].content # <<>> /\ response[t].content[1].has_text
     /\ ~JsonLoads(response[t].content[1].text).ok) =>
      /\ outcome[t].kind = "raise"
      /\ outcome[t].cls # "JSONDecodeError"
      /\ outcome[t].msg \in {McpErrorMsg, ConnectFailedMsg}

\* C9: an invocation sends at most one request, exactly one once it has
\* reached the send, none after it ended, and it ends with exactly one
\* outcome.
C9_OnePostOneOutcome ==
  \A k \in 1..ncalls :
    /\ Cardinality(PostsOf(k)) <= 1
    /\ Len(delivered[k]) <= 1
    /\ Running(k) <=> Len(delivered[k]) = 0
    /\ Len(delivered[k]) = 1 => Cardinality(PostsOf(k)) = 1
    /\ \A t \in Threads :
         inv[t] = k =>
           /\ pc[t] = "wait" => Cardinality(PostsOf(k)) = 1
           /\ pc[t] \in {"load", "store", "post"} => PostsOf(k) = {}

C9_Witness ==
  /\ ncalls = 3
  /\ delivered[1] = <<"raise">>
  /\ delivered[2] = <<"raise">>
  /\ delivered[3] = <<"return">>
  /\ Len(posts) = 3

====
